---- MODULE Spec2Model ----
(***************************************************************************)
(* Bandersnatch: the Machine classification pipeline (app/machine.py) and  *)
(* the Database record store (app/data.py).                                *)
(*                                                                         *)
(* A table (DataFrame) is abstracted to its set of column names and the    *)
(* number of rows carrying each Rarity label; that is all the resampling   *)
(* steps' success and output sizes depend on.  A fitted SVC is abstracted  *)
(* to the two functions it answers queries with: predict (from the         *)
(* one-vs-one decision function) and predict_proba (from Platt scaling).   *)
(* Probabilities are integers over Scale: p stands for p / Scale.          *)
(***************************************************************************)
EXTENDS Integers, Sequences, FiniteSets, TLC

\* ---------------------------------------------------------------- bounds
MaxCount == 7       \* per-class row counts of an input table: 0..MaxCount
MaxBatch == 2       \* rows in a feature_basis passed to __call__
Scale == 2          \* probability resolution
NumTimes == 2       \* distinct clock readings
MaxDocs == 3        \* documents in the collection
MaxAmount == 2      \* largest amount passed to seed

\* ------------------------------------------------------ program constants
K_NEIGHBORS == 5    \* SMOTE(...) is built without k_neighbors: the default

\* ------------------------------------------------------------- vocabulary
ClassOrder == <<"Common", "Legendary", "Rare">>   \* sorted, as np.unique orders labels
Classes == {ClassOrder[i] : i \in 1..Len(ClassOrder)}
FeatureCols == {"Level", "Health", "Energy", "Sanity"}
TargetCol == "Rarity"
AllCols == FeatureCols \cup {TargetCol, "_id", "Name", "Type"}
Rows == {"r1", "r2"}                      \* distinct feature rows
Paths == {"model.joblib"}
Times == 1..NumTimes
CountValues == (0..MaxCount) \cup {100}
\* the last label is rarer: absent, just below or just at what SMOTE needs
RareCountValues == {0, K_NEIGHBORS, K_NEIGHBORS + 1}

\* ---------------------------------------------------------------- helpers
RECURSIVE SumOver(_, _)
SumOver(f, S) ==
    IF S = {} THEN 0
    ELSE LET c == CHOOSE x \in S : TRUE IN f[c] + SumOver(f, S \ {c})

Total(counts) == SumOver(counts, Classes)
Present(counts) == {c \in Classes : counts[c] > 0}
MaxOf(S) == CHOOSE m \in S : \A x \in S : x <= m
MinOf(S) == CHOOSE m \in S : \A x \in S : m <= x
Index(c) == CHOOSE i \in 1..Len(ClassOrder) : ClassOrder[i] = c
\* first class, in label order, among S that satisfies the extremum
FirstOf(S) == CHOOSE c \in S : \A d \in S : Index(c) <= Index(d)

\* --------------------------------------------------------------- DataFrame
DataFrame(cols, counts) == [columns |-> cols, counts |-> counts]
NoRows == [c \in Classes |-> 0]

\* ----------------------------------------------- imblearn: SMOTE (line 39)
\* sampling_strategy='auto' is 'not majority': every class but the (first)
\* largest one is raised to the largest count.
SmoteStrategy(counts) ==
    LET stats == Present(counts)
        n_majority == MaxOf({counts[c] : c \in stats})
        class_majority == FirstOf({c \in stats : counts[c] = n_majority})
    IN  [c \in Classes |->
            IF c \in stats /\ c # class_majority THEN n_majority - counts[c] ELSE 0]

\* variant: the neighbour search asks for k_neighbors rows, not one more
SmoteCanSynthesizeOffByOne(counts, c) == counts[c] >= K_NEIGHBORS
\* A class that needs synthetic rows is handed to a nearest-neighbour search
\* for k_neighbors + 1 neighbours, which needs that many rows of the class.
SmoteCanSynthesize(counts, c) == counts[c] >= K_NEIGHBORS + 1

SmoteFitResample(counts) ==
    IF Total(counts) = 0 THEN
        [ok |-> FALSE, error |-> "ValueError", counts |-> counts, strategy |-> NoRows]
    ELSE IF Cardinality(Present(counts)) <= 1 THEN
        [ok |-> FALSE, error |-> "ValueError", counts |-> counts, strategy |-> NoRows]
    ELSE LET strategy == SmoteStrategy(counts) IN
        IF \E c \in Classes : strategy[c] # 0 /\ ~SmoteCanSynthesize(counts, c) THEN
            [ok |-> FALSE, error |-> "ValueError", counts |-> counts, strategy |-> strategy]
        ELSE
            [ok |-> TRUE, error |-> "", strategy |-> strategy,
             counts |-> [c \in Classes |-> counts[c] + strategy[c]]]

\* ---------------------------------- imblearn: RandomUnderSampler (line 40)
\* sampling_strategy='auto' is 'not minority': every class but the (first)
\* smallest one is cut, without replacement, to the smallest count.
RusStrategy(counts) ==
    LET stats == Present(counts)
        n_minority == MinOf({counts[c] : c \in stats})
        class_minority == FirstOf({c \in stats : counts[c] = n_minority})
    IN  [c \in Classes |-> IF c \in stats /\ c # class_minority THEN n_minority ELSE 0]

RusFitResample(counts) ==
    IF Total(counts) = 0 \/ Cardinality(Present(counts)) <= 1 THEN
        [ok |-> FALSE, error |-> "ValueError", counts |-> counts, strategy |-> NoRows]
    ELSE LET strategy == RusStrategy(counts) IN
        [ok |-> TRUE, error |-> "", strategy |-> strategy,
         counts |-> [c \in Classes |->
                        IF strategy[c] # 0 THEN strategy[c] ELSE counts[c]]]

\* ------------------------------------------------ sklearn: SVC (lines 32-37)
\* A probability vector over the fitted classes.
ProbVectors(S) ==
    {p \in [Classes -> 0..Scale] :
        SumOver(p, Classes) = Scale /\ \A c \in Classes \ S : p[c] = 0}

\* What fitting can produce on classes S: the decision function's label for
\* each row, and the Platt-scaled probabilities for each row.  The two come
\* from separate sub-procedures of libsvm and are not tied to each other.
Classifiers(S) ==
    [predict : [Rows -> S], proba : [Rows -> ProbVectors(S)]]

UnfittedSVC ==
    [fitted |-> FALSE, classes_ |-> {},
     predict |-> [r \in Rows |-> ""], proba |-> [r \in Rows |-> NoRows]]

SvcFit(counts, clf) ==
    IF Cardinality(Present(counts)) <= 1 THEN
        [ok |-> FALSE, error |-> "ValueError", model |-> UnfittedSVC]
    ELSE
        [ok |-> TRUE, error |-> "",
         model |-> [fitted |-> TRUE, classes_ |-> Present(counts),
                    predict |-> clf.predict, proba |-> clf.proba]]

SvcPredict(model, rows) == [i \in 1..Len(rows) |-> model.predict[rows[i]]]
SvcPredictProba(model, rows) == [i \in 1..Len(rows) |-> model.proba[rows[i]]]

\* ------------------------------------------------------ datetime (line 48)
Strftime(t) == <<"%Y-%m-%d %I:%M:%S %p", t>>

\* ------------------------------------------------------------ Machine object
Samplers(strategy) ==
    [sampling_strategy |-> "auto", random_state |-> 42, sampling_strategy_ |-> strategy]

NewMachine(model, over, under, stamp) ==
    [name |-> "Support Vector Machines", model |-> model,
     oversampling |-> Samplers(over), undersampling |-> Samplers(under),
     timestamp |-> stamp]

\* variant: df.get("Rarity"), which yields None instead of raising
HasTargetUnchecked(df) == TRUE
\* df["Rarity"] and df[["Level", "Health", "Energy", "Sanity"]]
HasTarget(df) == TargetCol \in df.columns
HasFeatures(df) == FeatureCols \subseteq df.columns

\* variant: the oversampler's output is dropped, the raw data goes on
OversampleStepSkipped(counts) ==
    [ok |-> TRUE, error |-> "", strategy |-> NoRows, counts |-> counts]
\* variant: the undersampler is applied in the oversampler's place
OversampleStepSwapped(counts) == RusFitResample(counts)
\* self.oversampling.fit_resample(features, target)
OversampleStep(counts) == SmoteFitResample(counts)
\* self.undersampling.fit_resample(features_resampled, target_resampled)
UndersampleStep(counts) == RusFitResample(counts)
\* self.model.fit(features_resampled, target_resampled)
FitStep(counts, clf) == SvcFit(counts, clf)

\* The outcome of a constructor call that raised after running `steps`.
Raised(df, steps, err, over, under) ==
    [status |-> "raised", error |-> err, steps |-> steps, input |-> df,
     over |-> over, under |-> under, self |-> <<>>]

\* variant: try/except around line 43 that carries on with the raw data
OversampleFailedSkipped(df, over, clf, t) ==
    LET under == UndersampleStep(df.counts)
        fit == FitStep(under.counts, clf)
    IN  IF under.ok /\ fit.ok THEN
            [status |-> "returned", error |-> "",
             steps |-> <<"target", "features", "oversampling", "undersampling",
                         "fit", "timestamp">>,
             input |-> df, over |-> df.counts, under |-> under.counts,
             self |-> <<NewMachine(fit.model, NoRows, under.strategy, Strftime(t))>>]
        ELSE Raised(df, <<"target", "features", "oversampling", "undersampling">>,
                    "ValueError", df.counts, NoRows)

\* What a failed oversampling does to the constructor: the exception leaves
\* __init__, nothing after line 43 runs.
OversampleFailed(df, over, clf, t) ==
    Raised(df, <<"target", "features", "oversampling">>, over.error, NoRows, NoRows)

\* Machine.__init__(df): the statements in order; the first one that raises
\* ends the call.  clf is what fitting yields, t the clock reading at line 48.
MachineInit(df, clf, t) ==
    IF ~HasTarget(df) THEN
        Raised(df, <<"target">>, "KeyError", NoRows, NoRows)
    ELSE IF ~HasFeatures(df) THEN
        Raised(df, <<"target", "features">>, "KeyError", NoRows, NoRows)
    ELSE LET over == OversampleStep(df.counts) IN
    IF ~over.ok THEN OversampleFailed(df, over, clf, t)
    ELSE LET under == UndersampleStep(over.counts) IN
    IF ~under.ok THEN
        Raised(df, <<"target", "features", "oversampling", "undersampling">>,
               under.error, over.counts, NoRows)
    ELSE LET fit == FitStep(under.counts, clf) IN
    IF ~fit.ok THEN
        Raised(df, <<"target", "features", "oversampling", "undersampling", "fit">>,
               fit.error, over.counts, under.counts)
    ELSE
        [status |-> "returned", error |-> "",
         steps |-> <<"target", "features", "oversampling", "undersampling",
                     "fit", "timestamp">>,
         input |-> df, over |-> over.counts, under |-> under.counts,
         self |-> <<NewMachine(fit.model, over.strategy, under.strategy, Strftime(t))>>]

\* variant: the last row of the batch is unpacked instead of the first
LastOfArray(a) == a[Len(a)]
\* Machine.__call__(feature_basis)
FirstOfArray(a) == Head(a)
MaxEntry(p, S) == MaxOf({p[c] : c \in S})
MachineCall(m, rows) ==
    LET prediction == FirstOfArray(SvcPredict(m.model, rows))
        confidence == FirstOfArray(SvcPredictProba(m.model, rows))
    IN  <<prediction, MaxEntry(confidence, m.model.classes_)>>

\* joblib.dump(self, filepath): the pickle of the object, its class and the
\* entries of its __dict__ in attribute order.
AttrOrder == <<"name", "model", "oversampling", "undersampling", "timestamp">>
JoblibDump(m) ==
    <<<<"class", "Machine">>>> \o [i \in 1..Len(AttrOrder) |-> <<AttrOrder[i], m[AttrOrder[i]]>>]

\* variant: open rebuilds the object through the constructor's last line
JoblibLoadRestamped(blob) ==
    [a \in {blob[i][1] : i \in 2..Len(blob)} |->
        IF a = "timestamp" THEN Strftime(0)
        ELSE blob[CHOOSE i \in 2..Len(blob) : blob[i][1] = a][2]]

\* joblib.load(filepath): a new object of the pickled class whose __dict__
\* holds the pickled entries; __init__ is not called.
Entry(blob, attr) == (CHOOSE i \in 2..Len(blob) : blob[i][1] = attr)
JoblibLoad(blob) ==
    [a \in {blob[i][1] : i \in 2..Len(blob)} |-> blob[Entry(blob, a)][2]]

\* Machine.info()
MachineInfo(m) == <<"Base Model:", m.name, "<br>", "Timestamp:", m.timestamp>>

\* ------------------------------------------------------------------ Database
\* Database.dataframe(): DataFrame(list(collection.find())); a list of no
\* documents makes a DataFrame with no columns at all.
DatabaseDataframe(coll) ==
    IF Total(coll) = 0 THEN DataFrame({}, NoRows) ELSE DataFrame(AllCols, coll)

\* Python values whose type a caller can tell apart
PyBool(b) == [type |-> "bool", value |-> b]
PyInt(n) == [type |-> "int", value |-> n]
\* pymongo's DeleteResult, the value of collection.delete_many({}); the
\* server's reply is kept only when the write was acknowledged
DeleteResult(ack, n) ==
    [type |-> "DeleteResult", acknowledged |-> ack,
     raw_result |-> IF ack THEN <<n>> ELSE <<>>]
\* pymongo's InsertManyResult, the value of collection.insert_many(docs)
InsertManyResult(ack, n) ==
    [type |-> "InsertManyResult", acknowledged |-> ack, inserted |-> n]

\* Database.seed(amount): the value of `return result.acknowledged`
DatabaseSeed(ack, amount) == PyBool(InsertManyResult(ack, amount).acknowledged)
\* Database.reset(): the value of `return self.collection.delete_many({})`
DatabaseReset(coll, ack) == DeleteResult(ack, Total(coll))
\* Database.count()
DatabaseCount(coll) == PyInt(Total(coll))
\* Database.html_table()
DatabaseHtmlTable(coll) == [type |-> "str", value |-> <<"<table>", DatabaseDataframe(coll)>>]

\* --------------------------------------------------------------------- state
VARIABLES
    machine,      \* the Machine the caller constructed: <<>> or <<m>>
    loaded,       \* the Machine the last Machine.open returned: <<>> or <<m>>
    files,        \* the file system: path -> pickled bytes, <<>> for no file
    trace,        \* the last constructor call: input, steps run, outcome
    calls,        \* how often __init__, fit_resample and fit have been called
    collection,   \* the MongoDB collection: label -> number of documents
    ret           \* the last operation and what it returned or raised

vars == <<machine, loaded, files, trace, calls, collection, ret>>

NoTrace ==
    [status |-> "none", error |-> "", steps |-> <<>>, input |-> DataFrame({}, NoRows),
     over |-> NoRows, under |-> NoRows, self |-> <<>>]
Ret(op, target, arg, ok, val) ==
    [op |-> op, target |-> target, arg |-> arg, ok |-> ok, val |-> val]

\* ------------------------------------------------------------------- inputs
ColumnChoices == {AllCols, AllCols \ {TargetCol}, AllCols \ {"Sanity"}}
InputTables ==
    {DataFrame(cols, counts) :
        cols \in ColumnChoices,
        counts \in {f \in [Classes -> CountValues] :
                      f[ClassOrder[Len(ClassOrder)]] \in RareCountValues}}
    \cup {DatabaseDataframe(NoRows)}
Skewed(minority) ==
    [c \in Classes |-> IF c = ClassOrder[1] THEN MaxCount
                        ELSE IF c = ClassOrder[2] THEN minority ELSE 0]
LifecycleTables ==
    {DataFrame(AllCols, Skewed(K_NEIGHBORS + 1)), DataFrame(AllCols, Skewed(K_NEIGHBORS)),
     DatabaseDataframe(NoRows)}
SomeClassifier == CHOOSE clf \in Classifiers(Classes) : TRUE
Batches == UNION {[1..n -> Rows] : n \in 0..MaxBatch}
\* every batch under the fitted columns, and one table that lacks a column
FeatureBases ==
    [columns : {FeatureCols}, rows : Batches]
    \cup {[columns |-> FeatureCols \ {"Sanity"}, rows |-> <<r>>] : r \in Rows}
Held(target) == IF target = "x" THEN machine ELSE loaded

Init ==
    /\ machine = <<>>
    /\ loaded = <<>>
    /\ files = [p \in Paths |-> <<>>]
    /\ trace = NoTrace
    /\ calls = [init |-> 0, fit_resample |-> 0, fit |-> 0]
    /\ collection = NoRows
    /\ ret = Ret("none", "", <<>>, TRUE, <<>>)

\* ------------------------------------------------------------------ actions
\* x = Machine(df), called once
Construct(df, clf, t) ==
    /\ trace.status = "none"
    /\ \E run \in {MachineInit(df, clf, t)} :
        /\ trace' = run
        /\ machine' = run.self
        /\ calls' = [init |-> calls.init + 1,
                     fit_resample |-> calls.fit_resample
                        + Cardinality({i \in 1..Len(run.steps) :
                              run.steps[i] \in {"oversampling", "undersampling"}}),
                     fit |-> calls.fit
                        + Cardinality({i \in 1..Len(run.steps) : run.steps[i] = "fit"})]
        /\ ret' = Ret("init", "x", df, run.status = "returned", run.error)
    /\ UNCHANGED <<loaded, files, collection>>

\* The fit outcome and the clock reading are drawn when the constructor gets
\* as far as fitting; when it raises before, neither is ever read.
ConstructFrom(tables) ==
    /\ trace.status = "none"
    /\ \E df \in tables :
        LET dry == MachineInit(df, SomeClassifier, 1) IN
        IF dry.status = "returned"
        THEN \E clf \in Classifiers(Present(dry.under)) : \E t \in Times :
                Construct(df, clf, t)
        ELSE Construct(df, SomeClassifier, 1)

ConstructAny == ConstructFrom(InputTables)
ConstructOne == ConstructFrom(LifecycleTables)

\* target(feature_basis)
Call ==
    \E target \in {"x", "loaded"} : \E fb \in FeatureBases :
        /\ Held(target) # <<>>
        /\ ret' = IF fb.columns # FeatureCols \/ fb.rows = <<>>
                  THEN Ret("call", target, fb, FALSE, "ValueError")
                  ELSE Ret("call", target, fb, TRUE, MachineCall(Held(target)[1], fb.rows))
        /\ UNCHANGED <<machine, loaded, files, trace, calls, collection>>

\* variant: save refreshes self.timestamp before dumping
SaveStamping ==
    \E p \in Paths :
        /\ machine # <<>>
        /\ machine' = <<[machine[1] EXCEPT !.timestamp = Strftime(0)]>>
        /\ files' = [files EXCEPT ![p] = JoblibDump(machine'[1])]
        /\ ret' = Ret("save", "x", p, TRUE, <<>>)
        /\ UNCHANGED <<loaded, trace, calls, collection>>

\* target.save(filepath)
Save ==
    \E target \in {"x", "loaded"} : \E p \in Paths :
        /\ Held(target) # <<>>
        /\ files' = [files EXCEPT ![p] = JoblibDump(Held(target)[1])]
        /\ ret' = Ret("save", target, p, TRUE, <<>>)
        /\ UNCHANGED <<machine, loaded, trace, calls, collection>>

\* loaded = Machine.open(filepath)
Open ==
    \E p \in Paths :
        /\ IF files[p] = <<>>
           THEN /\ ret' = Ret("open", "loaded", p, FALSE, "FileNotFoundError")
                /\ loaded' = loaded
           ELSE /\ ret' = Ret("open", "loaded", p, TRUE, <<>>)
                /\ loaded' = <<JoblibLoad(files[p])>>
        /\ UNCHANGED <<machine, files, trace, calls, collection>>

\* target.info()
Info ==
    \E target \in {"x", "loaded"} :
        /\ Held(target) # <<>>
        /\ ret' = Ret("info", target, <<>>, TRUE, MachineInfo(Held(target)[1]))
        /\ UNCHANGED <<machine, loaded, files, trace, calls, collection>>

Next == ConstructOne \/ Call \/ Save \/ Open \/ Info
Spec == Init /\ [][Next]_vars

NextConstruct == ConstructAny
SpecConstruct == Init /\ [][NextConstruct]_vars

\* ------------------------------------------------------------ store actions
\* The rarities of `amount` freshly generated monsters.
MonsterBatches(amount) == {f \in [Classes -> 0..amount] : Total(f) = amount}

\* db.seed(amount); insert_many refuses an empty list of documents
Seed ==
    \E amount \in 0..MaxAmount : \E batch \in MonsterBatches(amount) : \E ack \in BOOLEAN :
        /\ Total(collection) + amount <= MaxDocs
        /\ IF amount = 0
           THEN /\ collection' = collection
                /\ ret' = Ret("seed", "db", amount, FALSE, "TypeError")
           ELSE /\ collection' = [c \in Classes |-> collection[c] + batch[c]]
                /\ ret' = Ret("seed", "db", amount, TRUE, DatabaseSeed(ack, amount))
        /\ UNCHANGED <<machine, loaded, files, trace, calls>>

\* db.reset()
Reset ==
    \E ack \in BOOLEAN :
        /\ collection' = NoRows
        /\ ret' = Ret("reset", "db", <<>>, TRUE, DatabaseReset(collection, ack))
        /\ UNCHANGED <<machine, loaded, files, trace, calls>>

\* db.count()
Count ==
    /\ ret' = Ret("count", "db", <<>>, TRUE, DatabaseCount(collection))
    /\ UNCHANGED <<machine, loaded, files, trace, calls, collection>>

\* db.dataframe()
Dataframe ==
    /\ ret' = Ret("dataframe", "db", <<>>, TRUE, DatabaseDataframe(collection))
    /\ UNCHANGED <<machine, loaded, files, trace, calls, collection>>

\* db.html_table()
HtmlTable ==
    /\ ret' = Ret("html_table", "db", <<>>, TRUE, DatabaseHtmlTable(collection))
    /\ UNCHANGED <<machine, loaded, files, trace, calls, collection>>

NextStore == Seed \/ Reset \/ Count \/ Dataframe \/ HtmlTable
SpecStore == Init /\ [][NextStore]_vars

\* ===================================================================== claims
FullSteps == <<"target", "features", "oversampling", "undersampling", "fit", "timestamp">>
Ran(step) == \E i \in 1..Len(trace.steps) : trace.steps[i] = step
Constructed == trace.status # "none"
LargestInput == MaxOf({trace.input.counts[c] : c \in Classes})

\* C1: whenever the constructor returns, the data handed to fit holds, for
\* every label present in the input table, exactly as many rows as the
\* input's largest class.
C1_FitDataBalancedAtLargestClass ==
    trace.status = "returned" =>
        \A c \in Present(trace.input.counts) : trace.under[c] = LargestInput

C1_Witness ==
    /\ trace.status = "returned"
    /\ Present(trace.input.counts) = Classes
    /\ \E c, d \in Classes : trace.input.counts[c] < trace.input.counts[d]
    /\ \E c, d \in Classes : c # d /\ trace.input.counts[c] = LargestInput
                                   /\ trace.input.counts[d] = LargestInput

\* C5 as stated: the constructor returns on 100 "Common" and 5 "Legendary"
\* rows, with both classes at an equal count of at least 100.
Scenario(n) ==
    DataFrame(AllCols, [c \in Classes |->
        IF c = "Common" THEN 100 ELSE IF c = "Legendary" THEN n ELSE 0])

MissingColumn == ~(FeatureCols \cup {TargetCol} \subseteq trace.input.columns)

C6_NamedErrors ==
    Constructed =>
        /\ Total(trace.input.counts) = 0 =>
              trace.status = "raised" /\ trace.error = "EmptyDatasetError"
        /\ (MissingColumn /\ Total(trace.input.counts) > 0) =>
              trace.status = "raised" /\ trace.error = "SchemaMismatchError"

\* C6 amended: a table without the "Rarity" column or without a feature
\* column (the table of an empty collection has no column at all) raises
\* KeyError before any resampling; a table with the columns and no rows
\* raises ValueError in the oversampling step; either way the constructor's
\* caller gets the exception and no Machine.
C6_KeyErrorOrValueError ==
    Constructed =>
        /\ MissingColumn =>
              /\ trace.status = "raised" /\ trace.error = "KeyError"
              /\ ~Ran("oversampling")
              /\ machine = <<>> /\ ~ret.ok /\ ret.val = "KeyError"
        /\ (~MissingColumn /\ Total(trace.input.counts) = 0) =>
              /\ trace.status = "raised" /\ trace.error = "ValueError"
              /\ trace.steps = SubSeq(FullSteps, 1, 3)
              /\ machine = <<>> /\ ~ret.ok /\ ret.val = "ValueError"

C6_Witness ==
    /\ trace.input = DatabaseDataframe(NoRows)
    /\ trace.status = "raised"
    /\ ret.op = "init"

\* C7: for every label, the oversampling step leaves at least as many rows
\* as the input table had, and the undersampling step leaves at most as many
\* rows as the oversampling step left.
C7_OversampleGrowsUndersampleShrinks ==
    \A c \in Classes :
        /\ Ran("undersampling") => trace.over[c] >= trace.input.counts[c]
        /\ Ran("fit") => trace.under[c] <= trace.over[c]

C7_Witness ==
    /\ Ran("fit")
    /\ \E c \in Classes : trace.over[c] > trace.input.counts[c]

\* C8: a constructor call in which a step fails ends at that step, raised:
\* the steps run are the statements up to the failing one, each once, the
\* caller holds no Machine; and a Machine the caller holds is fitted and
\* stamped.
FailingStep ==
    IF TargetCol \notin trace.input.columns THEN 1
    ELSE IF ~(FeatureCols \subseteq trace.input.columns) THEN 2
    ELSE IF ~SmoteFitResample(trace.input.counts).ok THEN 3
    ELSE IF ~RusFitResample(SmoteFitResample(trace.input.counts).counts).ok THEN 4
    ELSE IF Cardinality(Present(trace.input.counts)) <= 1 THEN 5
    ELSE 0

C8_FailureAbortsConstruction ==
    /\ (Constructed /\ FailingStep # 0) =>
          /\ trace.status = "raised"
          /\ trace.steps = SubSeq(FullSteps, 1, FailingStep)
          /\ trace.error # ""
          /\ machine = <<>>
          /\ ~ret.ok
    /\ Constructed =>
          \A i, j \in 1..Len(trace.steps) : trace.steps[i] = trace.steps[j] => i = j
    /\ machine # <<>> =>
          /\ trace.status = "returned"
          /\ machine[1].model.fitted
          /\ machine[1].timestamp \in {Strftime(t) : t \in Times}

C8_Witness ==
    /\ Constructed
    /\ FailingStep = 3
    /\ trace.status = "raised"
    /\ Total(trace.input.counts) > 0

\* The valid feature tables: the four feature columns and at least one row.
ValidBases == {fb \in FeatureBases : fb.columns = FeatureCols /\ fb.rows # <<>>}
Answers(m) == [fb \in ValidBases |-> MachineCall(m, fb.rows)]
Opened == ret.op = "open" /\ ret.ok
CalledOk == ret.op = "call" /\ ret.ok

\* C2: when Machine.open(p) returns and the file at p is what m.save(p)
\* writes, for the caller's Machine m, the object returned is a fitted Machine with m's name and timestamp that
\* answers every feature table as m does; and no fit_resample or fit call
\* has been made beyond those of the constructor call.
C2_OpenAfterSaveRoundTrip ==
    /\ Opened =>
          \A m \in {machine[i] : i \in 1..Len(machine)} :
              files[ret.arg] = JoblibDump(m) =>
                  /\ loaded # <<>>
                  /\ loaded[1].model.fitted
                  /\ loaded[1].name = m.name
                  /\ loaded[1].timestamp = m.timestamp
                  /\ Answers(loaded[1]) = Answers(m)
    /\ calls.fit = Cardinality({i \in 1..Len(trace.steps) : trace.steps[i] = "fit"})
    /\ calls.fit_resample =
          Cardinality({i \in 1..Len(trace.steps) :
                          trace.steps[i] \in {"oversampling", "undersampling"}})

C2_Witness ==
    /\ Opened
    /\ machine # <<>>
    /\ files[ret.arg] = JoblibDump(machine[1])
    /\ loaded = machine

\* C3: a call with a valid, non-empty feature table returns the label
\* predicted for its first row together with the largest entry of the first
\* row's probability vector, which lies in [0, 1] (0..Scale here); every
\* table with the same first row gets the same answer.
C3_FirstRowLabelAndMaxProbability ==
    CalledOk =>
        LET m == Held(ret.target)[1]
            first == ret.arg.rows[1]
        IN  /\ ret.val[1] = m.model.predict[first]
            /\ \A c \in Classes : m.model.proba[first][c] <= ret.val[2]
            /\ \E c \in Classes : m.model.proba[first][c] = ret.val[2]
            /\ ret.val[2] \in 0..Scale
            /\ \A fb \in ValidBases :
                  fb.rows[1] = first => MachineCall(m, fb.rows) = ret.val

C3_Witness ==
    /\ CalledOk
    /\ Len(ret.arg.rows) > 1
    /\ ret.arg.rows[1] # ret.arg.rows[2]
    /\ LET m == Held(ret.target)[1] IN
          /\ m.model.predict[ret.arg.rows[1]] # m.model.predict[ret.arg.rows[2]]
          /\ ret.val[2] \notin {0, Scale}

\* C4 as stated: the confidence returned is the probability vector's entry
\* for the label returned.
C4_ConfidenceBelongsToLabel ==
    CalledOk =>
        LET m == Held(ret.target)[1]
        IN  m.model.proba[ret.arg.rows[1]][ret.val[1]] = ret.val[2]

\* C9: a call, save or info step leaves the caller's Machine and the opened
\* Machine as they were (name, classifier, resamplers, timestamp), so each
\* answers every feature row after the step as before it.
C9_UseLeavesMachineUnchanged ==
    [][ret'.op \in {"call", "save", "info"} =>
          /\ machine' = machine
          /\ loaded' = loaded
          /\ machine # <<>> =>
                \A r \in Rows : MachineCall(machine'[1], <<r>>) = MachineCall(machine[1], <<r>>)
          /\ loaded # <<>> =>
                \A r \in Rows : MachineCall(loaded'[1], <<r>>) = MachineCall(loaded[1], <<r>>)]_vars

C9_Witness ==
    /\ ret.op = "save"
    /\ ret.target = "x"
    /\ machine # <<>>
    /\ files[ret.arg] = JoblibDump(machine[1])

\* C10 as stated: reset returns a boolean, as seed does.
C10_ResetReturnsBool ==
    ret.op = "reset" => ret.val.type = "bool"

====
